---- MODULE Spec2Model ----
(***************************************************************************)
(* Food-Base: the food persistence layer of the Heart-Portal.              *)
(* The model follows src/Food-Base/food_storage.py (FoodStorageService)    *)
(* over the tables of src/Food-Base/database/models.py, stored in the      *)
(* SQLite database configured by src/Food-Base/database/__init__.py.       *)
(***************************************************************************)
EXTENDS Integers, Sequences, FiniteSets, TLC

VARIABLES
    foods,            \* committed rows of table foods
    nutrients,        \* committed rows of table nutrients
    food_nutrients,   \* committed rows of table food_nutrients
    food_portions,    \* committed rows of table food_portions
    search_history,   \* committed rows of table search_history, in insertion order
    clock,            \* datetime.utcnow(), as a logical time
    pre,              \* the committed tables when the last call started
    last,             \* the last call of the service: operation, argument, result
    reqs,             \* the requests being served concurrently
    writer,           \* the request holding SQLite's write lock, or NoWriter
    limiter           \* the RateLimiter of the provider client, with the time

vars == <<foods, nutrients, food_nutrients, food_portions, search_history,
          clock, pre, last, reqs, writer, limiter>>

-----------------------------------------------------------------------------
(* Bounds of the model.                                                    *)

MaxClock == 3
MaxNutrientEntries == 2
MaxPortionEntries == 2
MaxIngests == 2

-----------------------------------------------------------------------------
(* Python values.  A dictionary key that is missing is Absent; a key that  *)
(* is present with the value None is None.                                 *)

Absent == [t |-> "absent"]
None == [t |-> "none"]
Num(n) == [t |-> "num", n |-> n]
Str(s) == [t |-> "str", s |-> s]

\* bool(v): None, 0 and "" are false
Truthy(v) ==
    CASE v.t = "num" -> v.n # 0
      [] v.t = "str" -> v.s # ""
      [] OTHER -> FALSE

\* d.get(key)
Get(v) == IF v.t = "absent" THEN None ELSE v

\* d.get(key, default)
GetDefault(v, default) == IF v.t = "absent" THEN default ELSE v

\* a or b
Or(a, b) == IF Truthy(a) THEN a ELSE b

\* float(v) raises ValueError on a string that is not a number
FloatRaises(v) == v.t = "str"

SeqsUpTo(S, n) == UNION {[1..k -> S] : k \in 0..n}

SetMax(S) == IF S = {} THEN 0 ELSE CHOOSE m \in S : \A x \in S : x <= m

\* SQLite's INTEGER PRIMARY KEY of a new row: one more than the largest rowid
NextRowId(rows) == SetMax({r.id : r \in rows}) + 1


-----------------------------------------------------------------------------
(* Inputs: the payloads POSTed to /api/foods.  A payload is a dictionary   *)
(* whose shape the provider defines; the keys the service reads are kept.  *)

FdcIds == {1, 2}

\* the identifying keys of a payload
IdShapes ==
    {[fdcId |-> Num(i), food_id |-> Absent] : i \in FdcIds}
      \cup {[fdcId |-> Absent, food_id |-> Num(1)],
            [fdcId |-> Num(0), food_id |-> Num(2)],
            [fdcId |-> Absent, food_id |-> Absent],
            [fdcId |-> None, food_id |-> Str("")]}

\* the descriptive keys of a payload
PlainHead ==
    [description |-> Str("Apple"), name |-> Absent, brandOwner |-> Absent,
     brand_owner |-> Absent, brand |-> Absent, dataType |-> Str("Foundation"),
     data_type |-> Absent, publishedDate |-> Absent]

Heads ==
    {PlainHead,
     [description |-> Absent, name |-> Str("Pear"), brandOwner |-> Absent,
      brand_owner |-> Absent, brand |-> Str("Acme"), dataType |-> Absent,
      data_type |-> Str("Branded"), publishedDate |-> Str("2020-01-01T00:00:00Z")],
     [description |-> Absent, name |-> Absent, brandOwner |-> Str("Acme"),
      brand_owner |-> Absent, brand |-> Absent, dataType |-> Absent,
      data_type |-> Absent, publishedDate |-> Str("soon")]}

\* heads whose optional keys are missing, empty, null or not of the expected type
LooseHeads ==
    {[description |-> Str(""), name |-> Absent, brandOwner |-> Absent,
      brand_owner |-> Absent, brand |-> Absent, dataType |-> Absent,
      data_type |-> Absent, publishedDate |-> Num(2020)],
     [description |-> Absent, name |-> None, brandOwner |-> Absent,
      brand_owner |-> Absent, brand |-> Absent, dataType |-> Str("Foundation"),
      data_type |-> Absent, publishedDate |-> Absent],
     [description |-> Str("Apple"), name |-> Absent, brandOwner |-> None,
      brand_owner |-> Absent, brand |-> Absent, dataType |-> None,
      data_type |-> None, publishedDate |-> None]}

\* an entry of foodNutrients; info_* are the keys of its 'nutrient' dictionary
NutrientEntry(info_id, info_name, info_unit, nutrientId, amount, value) ==
    [info_id |-> info_id, info_name |-> info_name, info_unit |-> info_unit,
     nutrientId |-> nutrientId, amount |-> amount, value |-> value]

NutrientEntries ==
    {NutrientEntry(Num(1008), Str("Energy"), Str("kcal"), Absent, Num(52), Absent),
     NutrientEntry(Absent, Absent, Absent, Num(1003), Absent, Num(7)),
     NutrientEntry(Absent, Absent, Absent, Num(1008), Num(0), Absent),
     NutrientEntry(Absent, Absent, Absent, Num(1008), Absent, Absent),
     NutrientEntry(Absent, Str("Energy"), Str("kcal"), Absent, Num(52), Absent),
     NutrientEntry(Absent, Absent, Absent, Num(1003), Str("abc"), Absent)}

\* an entry of foodPortions
PortionEntries ==
    {[amount |-> Num(2), gramWeight |-> Num(182)],
     [amount |-> Absent, gramWeight |-> Absent],
     [amount |-> Num(2), gramWeight |-> None]}

Payload(ids, head, foodNutrients, foodPortions) ==
    [fdcId |-> ids.fdcId, food_id |-> ids.food_id,
     description |-> head.description, name |-> head.name,
     brandOwner |-> head.brandOwner, brand_owner |-> head.brand_owner,
     brand |-> head.brand, dataType |-> head.dataType, data_type |-> head.data_type,
     publishedDate |-> head.publishedDate,
     foodNutrients |-> foodNutrients, foodPortions |-> foodPortions]

FirstId == [fdcId |-> Num(1), food_id |-> Absent]
SecondId == [fdcId |-> Num(2), food_id |-> Absent]

Calories == NutrientEntry(Num(1008), Str("Calories"), Str("kJ"), Absent, Num(52), Absent)
Slice == [amount |-> Num(2), gramWeight |-> Num(182)]

\* an entry that names the nutrient of Calories by its id alone
Unnamed == NutrientEntry(Absent, Absent, Absent, Num(1008), Absent, Num(7))

\* the payloads of the service's callers: every identifying shape with every
\* head and no nutrient or portion; for two identifiers a payload with one
\* nutrient and a portion and a payload with the same nutrient twice; and a
\* payload that gives the nutrient no name
Payloads ==
    {Payload(ids, head, <<>>, <<>>) : ids \in IdShapes, head \in Heads}
      \cup {Payload(ids, PlainHead, body.foodNutrients, body.foodPortions) :
              ids \in {FirstId, SecondId},
              body \in {[foodNutrients |-> <<Calories>>, foodPortions |-> <<Slice>>],
                        [foodNutrients |-> <<Calories, Calories>>,
                         foodPortions |-> <<>>]}}
      \cup {Payload(SecondId, PlainHead, <<Unnamed>>, <<>>)}

\* the payloads of the ingestion runs: for the first identifier every nutrient
\* list and every portion list, and a second food that shares a nutrient
IngestPayloads ==
    {Payload(FirstId, PlainHead, ns, <<>>) :
        ns \in SeqsUpTo(NutrientEntries, MaxNutrientEntries)}
      \cup {Payload(FirstId, PlainHead, <<>>, ps) :
              ps \in SeqsUpTo(PortionEntries, MaxPortionEntries)}
      \cup {Payload(SecondId, PlainHead, ns, <<>>) : ns \in {<<>>, <<Calories>>}}
      \cup {Payload(FirstId, head, <<>>, <<>>) : head \in Heads \cup LooseHeads}

-----------------------------------------------------------------------------
(* The SQLAlchemy session of one request.  The tables are those the        *)
(* transaction sees; rows added to the session are inserted by the next    *)
(* flush, which is when the database checks its constraints.               *)

Tables == [foods |-> foods, nutrients |-> nutrients,
           food_nutrients |-> food_nutrients, food_portions |-> food_portions]

\* a new session over the committed tables
NewSession(db) ==
    [foods |-> db.foods, nutrients |-> db.nutrients,
     food_nutrients |-> db.food_nutrients, food_portions |-> db.food_portions,
     identity |-> {},          \* ids of the Nutrient objects loaded in the session
     unflushed |-> {},         \* ids of the Nutrient objects added and not flushed
     violation |-> FALSE,      \* an unflushed row breaks a constraint
     exc |-> "none"]

\* session.flush(): the pending INSERTs; a constraint violation raises
Flush(s) ==
    IF s.violation
    THEN [s EXCEPT !.exc = "IntegrityError"]
    ELSE [s EXCEPT !.identity = @ \cup s.unflushed, !.unflushed = {}]

IsNull(v) == v.t = "none"

\* foods without the unique constraint on fdc_id
FdcIdUnchecked(rows, row) == TRUE

\* Food.fdc_id: unique=True, nullable=False
FdcIdUnique(rows, row) == \A f \in rows : f.fdc_id # row.fdc_id

\* foods: the NOT NULL columns and the unique external identifier
FoodConstraints(rows, row) ==
    /\ ~IsNull(row.fdc_id)
    /\ ~IsNull(row.description)
    /\ ~IsNull(row.data_type)
    /\ FdcIdUnique(rows, row)

\* food_nutrients without its unique constraint
PairUnchecked(rows, row) == TRUE

\* FoodNutrient.__table_args__: UniqueConstraint('food_id', 'nutrient_id')
PairUnique(rows, row) ==
    \A r \in rows : ~(r.food_id = row.food_id /\ r.nutrient_id = row.nutrient_id)

\* FoodPortion: amount and gram_weight are nullable=False
PortionConstraints(row) == ~IsNull(row.amount) /\ ~IsNull(row.gram_weight)

\* Nutrient: name and unit_name are nullable=False
NutrientConstraints(row) == ~IsNull(row.name) /\ ~IsNull(row.unit_name)

-----------------------------------------------------------------------------
(* FoodStorageService: ingestion.                                          *)

DefaultPortionAmount == 1
DefaultGramWeight == 100

\* fdc_id = food_data.get('fdcId') or food_data.get('food_id')
ExternalId(food_data) == Or(Get(food_data.fdcId), Get(food_data.food_id))

\* the lookup keyed by the internal id instead of the external identifier
FoodsByInternalId(rows, fdc_id) == {f \in rows : Num(f.id) = fdc_id}

\* Food.query.filter_by(fdc_id=fdc_id).first()
FoodsByFdcId(rows, fdc_id) == {f \in rows : f.fdc_id = fdc_id}

\* a datetime.date
Date(s) == [t |-> "date", s |-> s]

\* the strings datetime.fromisoformat reads once 'Z' is replaced by '+00:00',
\* with the date each denotes
IsoDates ==
    {<<"2020-01-01T00:00:00Z", "2020-01-01">>, <<"2020-01-01", "2020-01-01">>}

\* the publication date: a value that is not a string of IsoDates raises
\* inside the try (AttributeError or ValueError), and the date stays None
PublishedDate(food_data) ==
    LET v == Get(food_data.publishedDate)
        read == {d \in IsoDates : v = Str(d[1])}
    IN  IF Truthy(v) /\ read # {}
        THEN Date((CHOOSE d \in read : TRUE)[2])
        ELSE None

\* json.dumps(food_data): the payload as a JSON string
Json(food_data) == [t |-> "json", of |-> food_data]

\* _create_food_from_api_data; saved_at and updated_at default to utcnow()
CreateFoodFromApiData(food_data, id, now) ==
    [id |-> id,
     fdc_id |-> ExternalId(food_data),
     description |->
        Or(Get(food_data.description), GetDefault(food_data.name, Str("Unknown Food"))),
     brand_owner |->
        Or(Or(Get(food_data.brandOwner), Get(food_data.brand_owner)), Get(food_data.brand)),
     data_type |->
        Or(Get(food_data.dataType), GetDefault(food_data.data_type, Str("Unknown"))),
     published_date |-> PublishedDate(food_data),
     raw_data |-> Json(food_data),
     saved_at |-> now,
     updated_at |-> now]

\* db.session.add(food); db.session.flush()
AddFood(s, food) ==
    Flush([s EXCEPT !.foods = @ \cup {food},
                    !.violation = @ \/ ~FoodConstraints(s.foods, food)])

\* nutrient_info.get('name', f'Nutrient {nutrient_id}')
PlaceholderName(nutrient_id) == Str("Nutrient " \o ToString(nutrient_id))

\* the Nutrient row _ensure_nutrient_exists builds
NewNutrient(nutrient_id, entry) ==
    [id |-> nutrient_id,
     name |-> GetDefault(entry.info_name, PlaceholderName(nutrient_id)),
     unit_name |-> GetDefault(entry.info_unit, Str(""))]

\* _ensure_nutrient_exists replacing the stored row by that of the payload
EnsureNutrientOverwrites(s, nutrient_id, entry) ==
    IF nutrient_id \in s.identity
    THEN s
    ELSE LET f == Flush(s)
             row == NewNutrient(nutrient_id, entry)
         IN  IF f.exc # "none" THEN f
             ELSE [f EXCEPT !.nutrients = {r \in @ : r.id # nutrient_id} \cup {row},
                            !.unflushed = @ \cup {nutrient_id},
                            !.violation = @ \/ ~NutrientConstraints(row)]

\* _ensure_nutrient_exists writing no Nutrient row
EnsureNutrientSkipped(s, nutrient_id, entry) == s

\* _ensure_nutrient_exists: Nutrient.query.get answers from the session's
\* identity map when the object is loaded; otherwise it autoflushes and SELECTs
EnsureNutrientExists(s, nutrient_id, entry) ==
    IF nutrient_id \in s.identity
    THEN s
    ELSE LET f == Flush(s)
             row == NewNutrient(nutrient_id, entry)
         IN  IF f.exc # "none" THEN f
             ELSE IF \E r \in f.nutrients : r.id = nutrient_id
             THEN [f EXCEPT !.identity = @ \cup {nutrient_id}]
             ELSE [f EXCEPT !.nutrients = @ \cup {row},
                            !.unflushed = @ \cup {nutrient_id},
                            !.violation = @ \/ ~NutrientConstraints(row)]

\* nutrient_id = nutrient_info.get('id') or nutrient_data.get('nutrientId')
EntryNutrientId(entry) == Or(Get(entry.info_id), Get(entry.nutrientId))

\* amount = nutrient_data.get('amount') or nutrient_data.get('value')
EntryAmount(entry) == Or(Get(entry.amount), Get(entry.value))

\* if not nutrient_id or amount is None: continue
EntrySkipped(entry) == ~Truthy(EntryNutrientId(entry)) \/ IsNull(EntryAmount(entry))

\* db.session.add(food_nutrient)
AddFoodNutrient(s, row) ==
    [s EXCEPT !.food_nutrients = @ \cup {row},
              !.violation = @ \/ ~PairUnique(s.food_nutrients, row)]

\* one iteration of the loop of _save_nutrients
SaveNutrient(s, food_id, entry) ==
    IF EntrySkipped(entry) THEN s
    ELSE LET e == EnsureNutrientExists(s, EntryNutrientId(entry).n, entry)
         IN  IF e.exc # "none" THEN e
             ELSE IF FloatRaises(EntryAmount(entry))
             THEN [e EXCEPT !.exc = "ValueError"]
             ELSE AddFoodNutrient(e,
                    [id |-> NextRowId(e.food_nutrients),
                     food_id |-> food_id,
                     nutrient_id |-> EntryNutrientId(entry).n,
                     amount |-> EntryAmount(entry)])

\* _save_nutrients: the entries in order; an exception ends the loop
RECURSIVE SaveNutrients(_, _, _)
SaveNutrients(s, food_id, entries) ==
    IF entries = <<>> \/ s.exc # "none" THEN s
    ELSE SaveNutrients(SaveNutrient(s, food_id, Head(entries)), food_id, Tail(entries))

\* a portion row whose missing gram weight takes the default of the amount
NewPortionOneDefault(id, food_id, entry) ==
    [id |-> id,
     food_id |-> food_id,
     amount |-> GetDefault(entry.amount, Num(DefaultPortionAmount)),
     gram_weight |-> GetDefault(entry.gramWeight, Num(DefaultPortionAmount))]

\* the FoodPortion row of one entry of foodPortions
NewPortion(id, food_id, entry) ==
    [id |-> id,
     food_id |-> food_id,
     amount |-> GetDefault(entry.amount, Num(DefaultPortionAmount)),
     gram_weight |-> GetDefault(entry.gramWeight, Num(DefaultGramWeight))]

\* db.session.add(portion)
AddPortion(s, row) ==
    [s EXCEPT !.food_portions = @ \cup {row},
              !.violation = @ \/ ~PortionConstraints(row)]

\* _save_portions
RECURSIVE SavePortions(_, _, _)
SavePortions(s, food_id, entries) ==
    IF entries = <<>> \/ s.exc # "none" THEN s
    ELSE SavePortions(
            AddPortion(s, NewPortion(NextRowId(s.food_portions), food_id, Head(entries))),
            food_id, Tail(entries))

\* lines 50-62 of save_food_from_api: the unit of work up to the commit,
\* whose flush inserts what is still pending
IngestSession(db, food_data, now) ==
    LET food == CreateFoodFromApiData(food_data, NextRowId(db.foods), now)
        s1 == AddFood(NewSession(db), food)
        s2 == SaveNutrients(s1, food.id, food_data.foodNutrients)
        s3 == SavePortions(s2, food.id, food_data.foodPortions)
    IN  IF s3.exc # "none" THEN s3 ELSE Flush(s3)

\* a history row that does not reference the Food
HistoryRowNoFood(action, search_query, food_id, ip_address) ==
    [action |-> action, search_query |-> search_query, food_id |-> None,
     ip_address |-> ip_address]

\* the SearchHistory row _log_search_history adds to the session
HistoryRow(action, search_query, food_id, ip_address) ==
    [action |-> action, search_query |-> search_query, food_id |-> food_id,
     ip_address |-> ip_address]

\* request.remote_addr, which the route hands to save_food_from_api
RemoteAddr == Str("203.0.113.7")

\* the result dictionaries of save_food_from_api
NoIdError == [error |-> "No FDC ID found in food data"]
IntegrityResult == [error |-> "Database integrity error"]
FailedResult == [error |-> "Failed to save food"]
SavedResult(food_id, duplicate) ==
    [error |-> "", food_id |-> food_id, duplicate |-> duplicate]

ErrorResult(exc) == IF exc = "IntegrityError" THEN IntegrityResult ELSE FailedResult

\* the check 'if fdc_id is None' instead of 'if not fdc_id'
MissingIdOnlyNone(food_data) == IsNull(ExternalId(food_data))

\* if not fdc_id: return {'error': ...}
MissingId(food_data) == ~Truthy(ExternalId(food_data))

\* the tables a session has written, as a commit leaves them
SessionTables(s) ==
    [foods |-> s.foods, nutrients |-> s.nutrients,
     food_nutrients |-> s.food_nutrients, food_portions |-> s.food_portions]

\* no rollback: what the session had flushed stays
RollbackKeepsFlushed(db, s) == SessionTables(s)

\* db.session.rollback() in the except clauses: nothing of the session stays
Rollback(db, s) == db

\* a duplicate path that refreshes the stored description from the payload
DuplicatePathRefreshes(db, existing_food, food_data, now) ==
    [result |-> SavedResult(existing_food.id, TRUE),
     db |-> [db EXCEPT !.foods = (@ \ {existing_food}) \cup
               {[existing_food EXCEPT
                   !.description = CreateFoodFromApiData(food_data, 0, now).description,
                   !.updated_at = now]}],
     uncommitted |-> <<HistoryRow("duplicate_save", None, Num(existing_food.id), RemoteAddr)>>]

\* the branch 'if existing_food': a history row is added to the session, the
\* stored Food is returned, and nothing is committed
DuplicatePath(db, existing_food, food_data, now) ==
    [result |-> SavedResult(existing_food.id, TRUE),
     db |-> db,
     uncommitted |-> <<HistoryRow("duplicate_save", None, Num(existing_food.id), RemoteAddr)>>]

\* what one call of save_food_from_api returns and commits; uncommitted are
\* the history rows it leaves in the session without a commit
SaveOutcome(db, food_data, now) ==
    LET fdc_id == ExternalId(food_data)
        existing == FoodsByFdcId(db.foods, fdc_id)
        s == IngestSession(db, food_data, now)
    IN  IF MissingId(food_data)
        THEN [result |-> NoIdError, db |-> db, uncommitted |-> <<>>]
        ELSE IF existing # {}
        THEN DuplicatePath(db, CHOOSE f \in existing : TRUE, food_data, now)
        ELSE IF s.exc # "none"
        THEN [result |-> ErrorResult(s.exc), db |-> Rollback(db, s), uncommitted |-> <<>>]
        ELSE [result |-> SavedResult(NextRowId(db.foods), FALSE),
              db |-> SessionTables(s),
              uncommitted |-> <<HistoryRow("save", None, Num(NextRowId(db.foods)), RemoteAddr)>>]

-----------------------------------------------------------------------------
(* FoodStorageService: update and delete.                                  *)

\* Food.query.get(food_id)
FoodsById(rows, food_id) == {f \in rows : f.id = food_id}

\* allowed_fields of update_food, as far as the model keeps the columns
AllowedFields == {"description", "brand_owner"}

\* the bodies PUT to /api/foods/<id>; fdc_id is a key outside the allow-list
UpdateData ==
    [description : {Absent, Str("Pear"), None},
     brand_owner : {Absent, Str("Acme")},
     fdc_id : {Absent, Num(9)}]

\* updated_fields counting every key of update_data
UpdatedFieldsAnyKey(update_data) ==
    {k \in AllowedFields \cup {"fdc_id"} : update_data[k] # Absent}

\* updated_fields: the allowed fields that are keys of update_data
UpdatedFields(update_data) == {k \in AllowedFields : update_data[k] # Absent}

\* a setattr loop over every key of update_data
ApplyUpdateAnyField(food, update_data, now) ==
    [food EXCEPT
        !.description = IF update_data.description # Absent
                        THEN update_data.description ELSE @,
        !.brand_owner = IF update_data.brand_owner # Absent
                        THEN update_data.brand_owner ELSE @,
        !.fdc_id = IF update_data.fdc_id # Absent THEN update_data.fdc_id ELSE @,
        !.updated_at = now]

\* the setattr loop without the stamp of updated_at
ApplyUpdateNoStamp(food, update_data, now) ==
    [food EXCEPT
        !.description = IF update_data.description # Absent
                        THEN update_data.description ELSE @,
        !.brand_owner = IF update_data.brand_owner # Absent
                        THEN update_data.brand_owner ELSE @]

\* the setattr loop of update_food and the stamp of updated_at
ApplyUpdate(food, update_data, now) ==
    [food EXCEPT
        !.description = IF update_data.description # Absent
                        THEN update_data.description ELSE @,
        !.brand_owner = IF update_data.brand_owner # Absent
                        THEN update_data.brand_owner ELSE @,
        !.updated_at = now]

NotFoundError == [error |-> "Food not found"]
NoFieldsError == [error |-> "No valid fields to update"]
UpdateFailed == [error |-> "Failed to update food"]

\* what one call of update_food returns and commits
UpdateOutcome(db, history, food_id, update_data, now) ==
    LET found == FoodsById(db.foods, food_id)
        food == CHOOSE f \in found : TRUE
        updated == ApplyUpdate(food, update_data, now)
    IN  IF found = {} THEN [result |-> NotFoundError, db |-> db, history |-> history]
        ELSE IF UpdatedFields(update_data) = {}
        THEN [result |-> NoFieldsError, db |-> db, history |-> history]
        ELSE IF ~FoodConstraints(db.foods \ {food}, updated)
        THEN [result |-> UpdateFailed, db |-> db, history |-> history]   \* rollback
        ELSE [result |-> [error |-> "", food_id |-> food_id,
                          updated_fields |-> UpdatedFields(update_data)],
              db |-> [db EXCEPT !.foods = (@ \ {food}) \cup {updated}],
              history |-> Append(history, HistoryRow("update", None, Num(food_id), None))]

\* a delete that leaves the rows of the Food's relationships
DeleteLeavesChildren(db, food_id) ==
    [db EXCEPT !.foods = {f \in @ : f.id # food_id}]

\* db.session.delete(food): the relationships of Food cascade 'all, delete-orphan'
DeleteCascade(db, food_id) ==
    [db EXCEPT !.foods = {f \in @ : f.id # food_id},
               !.food_nutrients = {r \in @ : r.food_id # food_id},
               !.food_portions = {r \in @ : r.food_id # food_id}]

\* a delete that also removes the history rows that reference the Food
DeletePurgesHistory(db, history, food_id) ==
    IF FoodsById(db.foods, food_id) = {}
    THEN [result |-> NotFoundError, db |-> db, history |-> history]
    ELSE [result |-> [error |-> "", message |-> "Food deleted successfully"],
          db |-> DeleteCascade(db, food_id),
          history |-> Append(SelectSeq(history, LAMBDA h : h.food_id # Num(food_id)),
                             HistoryRow("delete", None, Num(food_id), None))]

\* what one call of delete_food returns and commits
DeleteOutcome(db, history, food_id) ==
    IF FoodsById(db.foods, food_id) = {}
    THEN [result |-> NotFoundError, db |-> db, history |-> history]
    ELSE [result |-> [error |-> "", message |-> "Food deleted successfully"],
          db |-> DeleteCascade(db, food_id),
          history |-> Append(history, HistoryRow("delete", None, Num(food_id), None))]

\* what can go wrong with the history row of a call: nothing; an exception
\* while _log_search_history builds and adds the row; an error of the
\* database when the commit INSERTs the row
LogFaults == {"none", "add", "insert"}

\* update_food when the history row fails: the try of _log_search_history
\* swallows an exception of the add, and the row is not written; an error of
\* the INSERT is raised by db.session.commit(), and the except clause of
\* update_food rolls the field changes back with it
UpdateOutcomeLogging(db, history, food_id, update_data, now, fault) ==
    LET out == UpdateOutcome(db, history, food_id, update_data, now)
    IN  IF out.result.error # "" \/ fault = "none" THEN out
        ELSE IF fault = "add" THEN [out EXCEPT !.history = history]
        ELSE [result |-> UpdateFailed, db |-> db, history |-> history]

\* delete_food when the history row fails, likewise
DeleteOutcomeLogging(db, history, food_id, fault) ==
    LET out == DeleteOutcome(db, history, food_id)
    IN  IF out.result.error # "" \/ fault = "none" THEN out
        ELSE IF fault = "add" THEN [out EXCEPT !.history = history]
        ELSE [result |-> [error |-> "Failed to delete food"],
              db |-> db, history |-> history]

\* 'not found' in result['error'].lower(), over the errors of update_food
MentionsNotFound(error) == error = NotFoundError.error

\* the status of PUT /api/foods/<id>
UpdateStatus(result) ==
    IF result.error = "" THEN 200
    ELSE IF MentionsNotFound(result.error) THEN 404 ELSE 400

\* the status of DELETE /api/foods/<id>: 404 for every error of delete_food
DeleteStatus(result) == IF result.error # "" THEN 404 ELSE 200

-----------------------------------------------------------------------------
(* FoodStorageService: the queries.                                        *)

\* get_food_by_id: Food.query.get(food_id), None when there is no such row
GetFoodById(rows, food_id) ==
    IF FoodsById(rows, food_id) = {} THEN None
    ELSE Num((CHOOSE f \in FoodsById(rows, food_id) : TRUE).id)

\* datetime.isoformat() of a published_date read back from its column
IsoFormat(d) == IF d.t = "date" THEN Str(d.s \o "T00:00:00") ELSE None

\* the rows of a relationship, in the order of their ids
RECURSIVE ByRowId(_)
ByRowId(rows) ==
    IF rows = {} THEN <<>>
    ELSE LET r == CHOOSE r \in rows : \A q \in rows : r.id <= q.id
         IN  <<r>> \o ByRowId(rows \ {r})

\* FoodNutrient.to_dict
FoodNutrientToDict(row, db) ==
    LET found == {n \in db.nutrients : n.id = row.nutrient_id}
        nutrient == CHOOSE n \in found : TRUE
    IN  [nutrient_id |-> row.nutrient_id,
         nutrientId |-> row.nutrient_id,
         amount |-> row.amount,
         value |-> row.amount,
         unit |-> IF found # {} THEN nutrient.unit_name ELSE None,
         name |-> IF found # {} THEN nutrient.name ELSE None]

\* FoodPortion.to_dict
FoodPortionToDict(row) ==
    [id |-> row.id, amount |-> row.amount, gram_weight |-> row.gram_weight]

\* Food.to_dict without the compatibility keys of the brand
ToDictNoAlias(f, db) ==
    LET ns == ByRowId({r \in db.food_nutrients : r.food_id = f.id})
        ps == ByRowId({r \in db.food_portions : r.food_id = f.id})
    IN  [id |-> f.id,
         fdc_id |-> f.fdc_id,
         fdcId |-> f.fdc_id,
         description |-> f.description,
         name |-> f.description,
         brand_owner |-> f.brand_owner,
         brandOwner |-> None,
         brand |-> None,
         data_type |-> f.data_type,
         dataType |-> f.data_type,
         published_date |-> IsoFormat(f.published_date),
         publishedDate |-> IsoFormat(f.published_date),
         saved_at |-> f.saved_at,
         updated_at |-> f.updated_at,
         nutrients |-> [i \in 1..Len(ns) |-> FoodNutrientToDict(ns[i], db)],
         portions |-> [i \in 1..Len(ps) |-> FoodPortionToDict(ps[i])]]

\* Food.to_dict: the representation every operation returns
ToDict(f, db) ==
    LET ns == ByRowId({r \in db.food_nutrients : r.food_id = f.id})
        ps == ByRowId({r \in db.food_portions : r.food_id = f.id})
    IN  [id |-> f.id,
         fdc_id |-> f.fdc_id,
         fdcId |-> f.fdc_id,
         description |-> f.description,
         name |-> f.description,
         brand_owner |-> f.brand_owner,
         brandOwner |-> f.brand_owner,
         brand |-> f.brand_owner,
         data_type |-> f.data_type,
         dataType |-> f.data_type,
         published_date |-> IsoFormat(f.published_date),
         publishedDate |-> IsoFormat(f.published_date),
         saved_at |-> f.saved_at,
         updated_at |-> f.updated_at,
         nutrients |-> [i \in 1..Len(ns) |-> FoodNutrientToDict(ns[i], db)],
         portions |-> [i \in 1..Len(ps) |-> FoodPortionToDict(ps[i])]]

\* [food.to_dict() for food in foods], foods given by their ids
ToDicts(ids, db) ==
    [i \in 1..Len(ids) |-> ToDict(CHOOSE f \in db.foods : f.id = ids[i], db)]

\* the 'food' key of a result of save_food_from_api or update_food
ResultFood(result, db) ==
    IF result.error = "" THEN ToDicts(<<result.food_id>>, db) ELSE <<>>

\* Food.query.order_by(Food.saved_at.desc()): the ids, the newest first
RECURSIVE NewestFirst(_)
NewestFirst(rows) ==
    IF rows = {} THEN <<>>
    ELSE LET f == CHOOSE f \in rows : \A g \in rows : g.saved_at <= f.saved_at
         IN  <<f.id>> \o NewestFirst(rows \ {f})

\* get_all_foods(limit, offset): ORDER BY saved_at DESC LIMIT limit OFFSET
\* offset; 'if limit' and 'if offset' leave a value of 0 or None out
GetAllFoods(rows, limit, offset) ==
    LET all == NewestFirst(rows)
        rest == IF offset # 0 THEN SubSeq(all, offset + 1, Len(all)) ELSE all
    IN  IF limit # 0 /\ limit < Len(rest) THEN SubSeq(rest, 1, limit) ELSE rest

UpperCase == "ABCDEFGHIJKLMNOPQRSTUVWXYZ"
LowerCase == "abcdefghijklmnopqrstuvwxyz"

\* lower() of SQLite on one character: the ASCII letters are folded
LowerChar(c) ==
    IF \E i \in 1..Len(UpperCase) : SubSeq(UpperCase, i, i) = c
    THEN LET i == CHOOSE i \in 1..Len(UpperCase) : SubSeq(UpperCase, i, i) = c
         IN  SubSeq(LowerCase, i, i)
    ELSE c

\* lower() of SQLite
RECURSIVE Lower(_)
Lower(s) ==
    IF s = "" THEN ""
    ELSE LowerChar(SubSeq(s, 1, 1)) \o Lower(SubSeq(s, 2, Len(s)))

\* text LIKE pattern: '%' stands for any characters, '_' for one character
RECURSIVE Like(_, _)
Like(text, pattern) ==
    IF pattern = "" THEN text = ""
    ELSE LET p == SubSeq(pattern, 1, 1)
             rest == SubSeq(pattern, 2, Len(pattern))
         IN  IF p = "%"
             THEN Like(text, rest)
                    \/ (text # "" /\ Like(SubSeq(text, 2, Len(text)), pattern))
             ELSE /\ text # ""
                  /\ (p = "_" \/ p = SubSeq(text, 1, 1))
                  /\ Like(SubSeq(text, 2, Len(text)), rest)

\* column.ilike(f'%{query}%'): lower(column) LIKE lower('%query%'), with the
\* query put into the pattern as it is; NULL matches nothing
ILike(v, query) ==
    v.t = "str" /\ Like(Lower(v.s), Lower("%" \o query.s \o "%"))

\* the Foods a search matches by description or brand
Matching(rows, query) ==
    {f \in rows : ILike(f.description, query) \/ ILike(f.brand_owner, query)}

\* .limit(limit).all() without an ORDER BY: the database returns the
\* matching rows, at most limit of them, in an order of its own
SearchResults(rows, query, limit) ==
    LET ids == {f.id : f \in Matching(rows, query)}
        n == IF limit < Cardinality(ids) THEN limit ELSE Cardinality(ids)
    IN  {q \in [1..n -> ids] : \A i, j \in 1..n : i # j => q[i] # q[j]}

\* the q and limit arguments of GET /api/search
Queries == {Str(""), Str("pea"), Str("a"), Str("zzz"), Str("_e")}
Limits == {1, 50}

\* the limit and offset arguments of GET /api/foods
PageLimits == {0, 1, 50}
Offsets == {0, 1}

-----------------------------------------------------------------------------
(* The RateLimiter of the provider client (API-manager).  Times are whole  *)
(* seconds of time.time().                                                 *)

MaxWaits == 4
MaxGap == 2

\* RateLimiter.__init__; time is time.time() and released the moments at
\* which wait_if_needed has returned
RateLimiter(max_calls, time_window) ==
    [max_calls |-> max_calls, time_window |-> time_window, calls |-> <<>>,
     time |-> 0, released |-> <<>>]

\* the rate_limit arguments of the clients
RateLimits == {<<1, 2>>, <<2, 2>>, <<2, 3>>}

\* the limiter of a process that makes no provider request
IdleLimiter == RateLimiter(1, 2)

\* self.calls = [call_time for call_time in self.calls if now - call_time < self.time_window]
Pruned(l, now) ==
    LET Recent(call_time) == now - call_time < l.time_window
    IN  SelectSeq(l.calls, Recent)

\* sleep_time when len(self.calls) >= self.max_calls, 0 when no sleep is due
SleepTime(l, now) ==
    LET calls == Pruned(l, now)
    IN  IF Len(calls) >= l.max_calls /\ l.time_window - (now - calls[1]) > 0
        THEN l.time_window - (now - calls[1])
        ELSE 0

\* RateLimiter.wait_if_needed called at time now: the call sleeps sleep_time
\* and returns; self.calls gets the time read before the sleep
WaitIfNeeded(l, now) ==
    [l EXCEPT !.calls = Append(Pruned(l, now), now),
              !.time = now + SleepTime(l, now),
              !.released = Append(@, now + SleepTime(l, now))]

-----------------------------------------------------------------------------
NoWriter == {}

\* everything the database holds committed
Committed ==
    [foods |-> foods, nutrients |-> nutrients, food_nutrients |-> food_nutrients,
     food_portions |-> food_portions, search_history |-> search_history]

\* the internal ids the callers address: those a Food can have, and one more
FoodIdArgs == 1 .. (Cardinality(FdcIds) + 1)

Init ==
    /\ foods = {}
    /\ nutrients = {}
    /\ food_nutrients = {}
    /\ food_portions = {}
    /\ search_history = <<>>
    /\ clock = 0
    /\ pre = [foods |-> {}, nutrients |-> {}, food_nutrients |-> {},
              food_portions |-> {}, search_history |-> <<>>]
    /\ last = [op |-> "none"]
    /\ reqs = <<>>
    /\ writer = NoWriter
    /\ limiter = IdleLimiter

\* POST /api/foods: one request runs save_food_from_api to its end; the rows
\* _log_search_history adds on the duplicate path and after the commit are
\* never committed, and go with the request's session
save_food_from_api(food_data) ==
    LET out == SaveOutcome(Tables, food_data, clock + 1)
    IN  /\ clock < MaxClock
        /\ clock' = clock + 1
        /\ foods' = out.db.foods
        /\ nutrients' = out.db.nutrients
        /\ food_nutrients' = out.db.food_nutrients
        /\ food_portions' = out.db.food_portions
        /\ pre' = Committed
        /\ last' = [op |-> "save", food_data |-> food_data, result |-> out.result,
                    uncommitted |-> out.uncommitted,
                    returned |-> ResultFood(out.result, out.db)]
        /\ UNCHANGED <<search_history, reqs, writer, limiter>>

\* PUT /api/foods/<id>
update_food(food_id, update_data) ==
    LET out == UpdateOutcome(Tables, search_history, food_id, update_data, clock + 1)
    IN  /\ clock < MaxClock
        /\ clock' = clock + 1
        /\ foods' = out.db.foods
        /\ nutrients' = out.db.nutrients
        /\ food_nutrients' = out.db.food_nutrients
        /\ food_portions' = out.db.food_portions
        /\ search_history' = out.history
        /\ pre' = Committed
        /\ last' = [op |-> "update", food_id |-> food_id, update_data |-> update_data,
                    result |-> out.result, status |-> UpdateStatus(out.result),
                    returned |-> ResultFood(out.result, out.db)]
        /\ UNCHANGED <<reqs, writer, limiter>>

\* DELETE /api/foods/<id>
delete_food(food_id) ==
    LET out == DeleteOutcome(Tables, search_history, food_id)
    IN  /\ clock < MaxClock
        /\ clock' = clock + 1
        /\ foods' = out.db.foods
        /\ nutrients' = out.db.nutrients
        /\ food_nutrients' = out.db.food_nutrients
        /\ food_portions' = out.db.food_portions
        /\ search_history' = out.history
        /\ pre' = Committed
        /\ last' = [op |-> "delete", food_id |-> food_id, result |-> out.result,
                    status |-> DeleteStatus(out.result)]
        /\ UNCHANGED <<reqs, writer, limiter>>

\* GET /api/search: an empty query lists the Foods; any other query adds a
\* 'search' row to the session and SELECTs the matching Foods.  Nothing is
\* committed, and the row goes with the request's session
search_foods(query, limit) ==
    /\ clock < MaxClock
    /\ clock' = clock + 1
    /\ \E found \in (IF ~Truthy(query) THEN {GetAllFoods(foods, limit, 0)}
                     ELSE SearchResults(foods, query, limit)) :
          last' = [op |-> "search", query |-> query, limit |-> limit,
                   result |-> found,
                   returned |-> ToDicts(found, Tables),
                   uncommitted |-> IF ~Truthy(query) THEN <<>>
                                   ELSE <<HistoryRow("search", query, None, None)>>]
    /\ pre' = Committed
    /\ UNCHANGED <<foods, nutrients, food_nutrients, food_portions,
                   search_history, reqs, writer, limiter>>

Next ==
    \/ \E food_data \in Payloads : save_food_from_api(food_data)
    \/ \E food_id \in FoodIdArgs, update_data \in UpdateData :
          update_food(food_id, update_data)
    \/ \E food_id \in FoodIdArgs : delete_food(food_id)

Spec == Init /\ [][Next]_vars

\* the payloads ingested into a database that holds a Food: a second food
\* without nutrients, with a nutrient, with a nutrient followed by an amount
\* that is not a number, with a nutrient listed twice, with a portion whose
\* gram weight is null; and the first food again
FollowPayloads ==
    {Payload(SecondId, PlainHead, body.foodNutrients, body.foodPortions) :
        body \in {[foodNutrients |-> <<>>, foodPortions |-> <<>>],
                  [foodNutrients |-> <<Calories>>, foodPortions |-> <<>>],
                  [foodNutrients |->
                      <<Calories,
                        NutrientEntry(Absent, Absent, Absent, Num(1003), Str("abc"), Absent)>>,
                   foodPortions |-> <<>>],
                  [foodNutrients |-> <<Calories, Calories>>, foodPortions |-> <<>>],
                  [foodNutrients |-> <<>>,
                   foodPortions |-> <<Slice, [amount |-> Num(2), gramWeight |-> None]>>]}}
      \cup {Payload(FirstId, PlainHead, <<Calories>>, <<Slice>>)}

\* ingestion alone: into the empty database the payloads with every nutrient
\* and portion list, and after them the payloads above
NextIngest ==
    \/ /\ clock = 0
       /\ \E food_data \in IngestPayloads : save_food_from_api(food_data)
    \/ /\ clock > 0
       /\ clock < MaxIngests
       /\ \E food_data \in FollowPayloads : save_food_from_api(food_data)

SpecIngest == Init /\ [][NextIngest]_vars

\* the calls that write or would write the history log: ingests of payloads
\* without nutrients and portions, updates, deletes and searches
\* GET /api/foods without search and category: get_all_foods(limit, offset)
get_stored_foods(limit, offset) ==
    /\ clock < MaxClock
    /\ clock' = clock + 1
    /\ last' = [op |-> "list", limit |-> limit, offset |-> offset,
                result |-> GetAllFoods(foods, limit, offset),
                returned |-> ToDicts(GetAllFoods(foods, limit, offset), Tables),
                uncommitted |-> <<>>]
    /\ pre' = Committed
    /\ UNCHANGED <<foods, nutrients, food_nutrients, food_portions,
                   search_history, reqs, writer, limiter>>

\* GET /api/foods/<id>: get_food_by_id
get_food(food_id) ==
    /\ clock < MaxClock
    /\ clock' = clock + 1
    /\ last' = [op |-> "get", food_id |-> food_id,
                result |-> GetFoodById(foods, food_id),
                returned |-> ToDicts(IF FoodsById(foods, food_id) = {} THEN <<>>
                                     ELSE <<food_id>>, Tables),
                uncommitted |-> <<>>]
    /\ pre' = Committed
    /\ UNCHANGED <<foods, nutrients, food_nutrients, food_portions,
                   search_history, reqs, writer, limiter>>

HistoryPayloads ==
    {Payload(ids, head, <<>>, <<>>) : ids \in {FirstId, SecondId}, head \in Heads}

NextHistory ==
    \/ \E food_data \in HistoryPayloads : save_food_from_api(food_data)
    \/ \E food_id \in FoodIdArgs, update_data \in UpdateData :
          update_food(food_id, update_data)
    \/ \E food_id \in FoodIdArgs : delete_food(food_id)
    \/ \E query \in Queries, limit \in Limits : search_foods(query, limit)
    \/ \E limit \in PageLimits, offset \in Offsets : get_stored_foods(limit, offset)
    \/ \E food_id \in FoodIdArgs : get_food(food_id)

SpecHistory == Init /\ [][NextHistory]_vars

\* PUT /api/foods/<id> while the history row may fail
update_food_logging(food_id, update_data, fault) ==
    LET out == UpdateOutcomeLogging(Tables, search_history, food_id, update_data,
                                    clock + 1, fault)
    IN  /\ clock < MaxClock
        /\ clock' = clock + 1
        /\ foods' = out.db.foods
        /\ nutrients' = out.db.nutrients
        /\ food_nutrients' = out.db.food_nutrients
        /\ food_portions' = out.db.food_portions
        /\ search_history' = out.history
        /\ pre' = Committed
        /\ last' = [op |-> "update", food_id |-> food_id, update_data |-> update_data,
                    result |-> out.result, status |-> UpdateStatus(out.result),
                    fault |-> fault]
        /\ UNCHANGED <<reqs, writer, limiter>>

\* DELETE /api/foods/<id> while the history row may fail
delete_food_logging(food_id, fault) ==
    LET out == DeleteOutcomeLogging(Tables, search_history, food_id, fault)
    IN  /\ clock < MaxClock
        /\ clock' = clock + 1
        /\ foods' = out.db.foods
        /\ nutrients' = out.db.nutrients
        /\ food_nutrients' = out.db.food_nutrients
        /\ food_portions' = out.db.food_portions
        /\ search_history' = out.history
        /\ pre' = Committed
        /\ last' = [op |-> "delete", food_id |-> food_id, result |-> out.result,
                    status |-> DeleteStatus(out.result), fault |-> fault]
        /\ UNCHANGED <<reqs, writer, limiter>>

NextLogging ==
    \/ \E food_data \in HistoryPayloads : save_food_from_api(food_data)
    \/ \E food_id \in FoodIdArgs, update_data \in UpdateData, fault \in LogFaults :
          update_food_logging(food_id, update_data, fault)
    \/ \E food_id \in FoodIdArgs, fault \in LogFaults :
          delete_food_logging(food_id, fault)

SpecLogging == Init /\ [][NextLogging]_vars

-----------------------------------------------------------------------------
(* The requests of one provider client, made one after the other.          *)

InitLimiter ==
    /\ foods = {}
    /\ nutrients = {}
    /\ food_nutrients = {}
    /\ food_portions = {}
    /\ search_history = <<>>
    /\ clock = 0
    /\ pre = [foods |-> {}, nutrients |-> {}, food_nutrients |-> {},
              food_portions |-> {}, search_history |-> <<>>]
    /\ last = [op |-> "none"]
    /\ reqs = <<>>
    /\ writer = NoWriter
    /\ limiter \in {RateLimiter(a[1], a[2]) : a \in RateLimits}

\* _make_request: self.rate_limiter.wait_if_needed(), gap seconds after the
\* previous request was let through
wait_if_needed(gap) ==
    /\ Len(limiter.released) < MaxWaits
    /\ limiter' = WaitIfNeeded(limiter, limiter.time + gap)
    /\ UNCHANGED <<foods, nutrients, food_nutrients, food_portions,
                   search_history, clock, pre, last, reqs, writer>>

NextLimiter == \E gap \in 0..MaxGap : wait_if_needed(gap)

SpecLimiter == InitLimiter /\ [][NextLimiter]_vars

-----------------------------------------------------------------------------
(* Concurrent requests.  Each request has its own session; SQLite lets one *)
(* connection write at a time: the first INSERT of a transaction takes the *)
(* write lock, which the commit or the rollback releases, and a SELECT     *)
(* reads what is committed.                                                *)

MaxRequests == 2

\* the payloads of the concurrent requests
ConcurrentPayloads ==
    {Payload(ids, PlainHead, ns, <<>>) :
        ids \in {FirstId, SecondId},
        ns \in {<<>>, <<Calories>>, <<Calories, Calories>>}}

Request(food_data) ==
    [pc |-> "lookup", food_data |-> food_data,
     session |-> NewSession([foods |-> {}, nutrients |-> {},
                             food_nutrients |-> {}, food_portions |-> {}]),
     food_id |-> 0,
     result |-> [error |-> "pending"]]

InitConcurrent ==
    /\ foods = {}
    /\ nutrients = {}
    /\ food_nutrients = {}
    /\ food_portions = {}
    /\ search_history = <<>>
    /\ clock = 0
    /\ pre = [foods |-> {}, nutrients |-> {}, food_nutrients |-> {},
              food_portions |-> {}, search_history |-> <<>>]
    /\ last = [op |-> "none"]
    /\ reqs \in [1..MaxRequests -> {Request(p) : p \in ConcurrentPayloads}]
    /\ writer = NoWriter
    /\ limiter = IdleLimiter

Done(r, result) == [r EXCEPT !.pc = "done", !.result = result]

\* lines 31-48: the identifier is resolved and looked up among the committed Foods
Lookup(i) ==
    LET r == reqs[i]
        existing == FoodsByFdcId(foods, ExternalId(r.food_data))
    IN  /\ r.pc = "lookup"
        /\ reqs' = [reqs EXCEPT ![i] =
              IF MissingId(r.food_data) THEN Done(r, NoIdError)
              ELSE IF existing # {}
              THEN Done(r, DuplicatePath(Tables, CHOOSE f \in existing : TRUE,
                                         r.food_data, clock).result)
              ELSE [r EXCEPT !.pc = "insert"]]
        /\ UNCHANGED <<foods, nutrients, food_nutrients, food_portions,
                       search_history, clock, pre, last, writer, limiter>>

\* lines 51-53: the flush INSERTs the Food; the transaction takes the write
\* lock and sees what is committed by then; a constraint violation raises
\* IntegrityError, and the except clause rolls back
Insert(i) ==
    LET r == reqs[i]
        food == CreateFoodFromApiData(r.food_data, NextRowId(foods), clock + 1)
        s == AddFood(NewSession(Tables), food)
    IN  /\ r.pc = "insert"
        /\ writer = NoWriter
        /\ clock' = clock + 1
        /\ IF s.exc # "none"
           THEN /\ reqs' = [reqs EXCEPT ![i] = Done(r, ErrorResult(s.exc))]
                /\ UNCHANGED writer
           ELSE /\ reqs' = [reqs EXCEPT ![i] =
                      [r EXCEPT !.pc = "children", !.session = s, !.food_id = food.id]]
                /\ writer' = {i}
        /\ UNCHANGED <<foods, nutrients, food_nutrients, food_portions,
                       search_history, pre, last, limiter>>

\* the flush of line 53 while another request holds the write lock beyond
\* SQLite's busy timeout: OperationalError 'database is locked', caught by
\* 'except Exception'
InsertLocked(i) ==
    LET r == reqs[i]
    IN  /\ r.pc = "insert"
        /\ writer # NoWriter
        /\ reqs' = [reqs EXCEPT ![i] = Done(r, FailedResult)]
        /\ UNCHANGED <<foods, nutrients, food_nutrients, food_portions,
                       search_history, clock, pre, last, writer, limiter>>

\* lines 56-59: _save_nutrients and _save_portions inside the transaction;
\* an exception is caught and the transaction rolled back
Children(i) ==
    LET r == reqs[i]
        s == SavePortions(SaveNutrients(r.session, r.food_id, r.food_data.foodNutrients),
                          r.food_id, r.food_data.foodPortions)
    IN  /\ r.pc = "children"
        /\ IF s.exc # "none"
           THEN /\ reqs' = [reqs EXCEPT ![i] = Done(r, ErrorResult(s.exc))]
                /\ writer' = NoWriter
           ELSE /\ reqs' = [reqs EXCEPT ![i] = [r EXCEPT !.pc = "commit", !.session = s]]
                /\ UNCHANGED writer
        /\ UNCHANGED <<foods, nutrients, food_nutrients, food_portions,
                       search_history, clock, pre, last, limiter>>

\* line 62: db.session.commit() flushes what is pending and commits, or
\* raises and the transaction is rolled back
CommitIngest(i) ==
    LET r == reqs[i]
        s == Flush(r.session)
        db == IF s.exc # "none" THEN Rollback(Tables, s) ELSE SessionTables(s)
    IN  /\ r.pc = "commit"
        /\ reqs' = [reqs EXCEPT ![i] =
              IF s.exc # "none" THEN Done(r, ErrorResult(s.exc))
              ELSE Done(r, SavedResult(r.food_id, FALSE))]
        /\ foods' = db.foods
        /\ nutrients' = db.nutrients
        /\ food_nutrients' = db.food_nutrients
        /\ food_portions' = db.food_portions
        /\ writer' = NoWriter
        /\ UNCHANGED <<search_history, clock, pre, last, limiter>>

NextConcurrent ==
    \/ \E i \in DOMAIN reqs : Lookup(i)
    \/ \E i \in DOMAIN reqs : Insert(i)
    \/ \E i \in DOMAIN reqs : InsertLocked(i)
    \/ \E i \in DOMAIN reqs : Children(i)
    \/ \E i \in DOMAIN reqs : CommitIngest(i)

SpecConcurrent == InitConcurrent /\ [][NextConcurrent]_vars

-----------------------------------------------------------------------------
(* Deletes next to ingests, on a database that holds a Food.               *)

\* a Food stored by an earlier ingest
StoredFood == CreateFoodFromApiData(Payload(FirstId, PlainHead, <<>>, <<>>), 1, 1)

\* a request DELETE /api/foods/<food_id>
DeleteRequest(food_id) ==
    [pc |-> "find", food_id |-> food_id, found |-> FALSE,
     result |-> [error |-> "pending"], status |-> 0]

InitDelete ==
    /\ foods = {StoredFood}
    /\ nutrients = {}
    /\ food_nutrients = {}
    /\ food_portions = {}
    /\ search_history = <<>>
    /\ clock = 1
    /\ pre = [foods |-> {StoredFood}, nutrients |-> {}, food_nutrients |-> {},
              food_portions |-> {}, search_history |-> <<>>]
    /\ last = [op |-> "none"]
    /\ reqs \in [1..MaxRequests ->
                    {Request(p) : p \in ConcurrentPayloads}
                       \cup {DeleteRequest(food_id) : food_id \in FoodIdArgs}]
    /\ writer = NoWriter
    /\ limiter = IdleLimiter

DeleteFailed == [error |-> "Failed to delete food"]

\* lines 259-262 of delete_food: Food.query.get reads what is committed
DeleteFind(i) ==
    LET r == reqs[i]
    IN  /\ r.pc = "find"
        /\ reqs' = [reqs EXCEPT ![i] =
              IF FoodsById(foods, r.food_id) = {}
              THEN [r EXCEPT !.pc = "done", !.result = NotFoundError,
                             !.status = DeleteStatus(NotFoundError)]
              ELSE [r EXCEPT !.pc = "remove", !.found = TRUE]]
        /\ UNCHANGED <<foods, nutrients, food_nutrients, food_portions,
                       search_history, clock, pre, last, writer, limiter>>

\* lines 265-270: the commit flushes the INSERT of the history row and the
\* DELETEs in one transaction; a DELETE that matches no row any more is
\* answered with a warning
DeleteCommit(i) ==
    LET r == reqs[i]
        db == DeleteCascade(Tables, r.food_id)
        result == [error |-> "", message |-> "Food deleted successfully"]
    IN  /\ r.pc = "remove"
        /\ writer = NoWriter
        /\ foods' = db.foods
        /\ nutrients' = db.nutrients
        /\ food_nutrients' = db.food_nutrients
        /\ food_portions' = db.food_portions
        /\ search_history' =
              Append(search_history, HistoryRow("delete", None, Num(r.food_id), None))
        /\ reqs' = [reqs EXCEPT ![i] =
              [r EXCEPT !.pc = "done", !.result = result,
                        !.status = DeleteStatus(result)]]
        /\ UNCHANGED <<clock, pre, last, writer, limiter>>

\* the flush of line 268 while another request holds the write lock beyond
\* SQLite's busy timeout: OperationalError 'database is locked', caught by
\* 'except Exception', and the route answers the error
DeleteLocked(i) ==
    LET r == reqs[i]
    IN  /\ r.pc = "remove"
        /\ writer # NoWriter
        /\ reqs' = [reqs EXCEPT ![i] =
              [r EXCEPT !.pc = "done", !.result = DeleteFailed,
                        !.status = DeleteStatus(DeleteFailed)]]
        /\ UNCHANGED <<foods, nutrients, food_nutrients, food_portions,
                       search_history, clock, pre, last, writer, limiter>>

NextDelete ==
    \/ \E i \in DOMAIN reqs : Lookup(i)
    \/ \E i \in DOMAIN reqs : Insert(i)
    \/ \E i \in DOMAIN reqs : InsertLocked(i)
    \/ \E i \in DOMAIN reqs : Children(i)
    \/ \E i \in DOMAIN reqs : CommitIngest(i)
    \/ \E i \in DOMAIN reqs : DeleteFind(i)
    \/ \E i \in DOMAIN reqs : DeleteCommit(i)
    \/ \E i \in DOMAIN reqs : DeleteLocked(i)

SpecDelete == InitDelete /\ [][NextDelete]_vars

-----------------------------------------------------------------------------
(* The claims.  A state records the last call and the committed tables     *)
(* before it, so that a claim about one call is a predicate of the state.  *)

IsSave == last.op = "save"
SaveSucceeded == IsSave /\ last.result.error = ""
SavedNew == SaveSucceeded /\ ~last.result.duplicate
SavedDuplicate == SaveSucceeded /\ last.result.duplicate
SaveFailed == IsSave /\ last.result.error # ""

PreTables ==
    [foods |-> pre.foods, nutrients |-> pre.nutrients,
     food_nutrients |-> pre.food_nutrients, food_portions |-> pre.food_portions]

\* the value a payload key carries identifies nothing
Empty(v) == v \in {Absent, None, Str("")}

\* the external identifier a payload resolves to: the primary key if it is
\* a non-zero number, else the fallback key
Resolves(food_data, fdc_id) ==
    \/ food_data.fdcId = fdc_id /\ Truthy(fdc_id)
    \/ ~Truthy(food_data.fdcId) /\ food_data.food_id = fdc_id /\ Truthy(fdc_id)

\* C1: idempotence of ingest.  When a payload resolves to the external
\* identifier of a Food stored by an earlier ingest (and not deleted since),
\* the call returns duplicate=true with that Food, and afterwards exactly one
\* Food row carries the identifier.
C1_IngestIdempotent ==
    /\ \A f, g \in foods : f.fdc_id = g.fdc_id => f = g
    /\ IsSave =>
         \A f \in pre.foods :
            Resolves(last.food_data, f.fdc_id) =>
               /\ SavedDuplicate
               /\ last.result.food_id = f.id
               /\ Cardinality({g \in foods : g.fdc_id = f.fdc_id}) = 1
               /\ \E g \in foods : g.id = f.id /\ g.fdc_id = f.fdc_id

\* a second ingest of a stored identifier, from a payload that differs from
\* the stored Food, has returned
C1_Witness ==
    /\ SavedDuplicate
    /\ \E f \in foods :
          /\ f.id = last.result.food_id
          /\ f.id # f.fdc_id.n
          /\ last.food_data.description # f.description

\* the concurrent requests that resolve to one external identifier
RequestsOf(fdc_id) == {i \in DOMAIN reqs : ExternalId(reqs[i].food_data) = fdc_id}
Returned(i) == reqs[i].pc = "done"
ReturnedError(i) == Returned(i) /\ reqs[i].result.error # ""
ReturnedNew(i) ==
    Returned(i) /\ reqs[i].result.error = "" /\ ~reqs[i].result.duplicate
ReturnedDuplicate(i) ==
    Returned(i) /\ reqs[i].result.error = "" /\ reqs[i].result.duplicate

\* C2 as stated: of the concurrent ingests of one external identifier at most
\* one returns duplicate=false, the others return duplicate=true or an error,
\* and once they have returned exactly one Food row of the identifier is
\* committed.
C2_ExactlyOneCommitted ==
    \A fdc_id \in {Num(i) : i \in FdcIds} :
        LET same == RequestsOf(fdc_id)
        IN  /\ Cardinality({i \in same : ReturnedNew(i)}) <= 1
            /\ (Cardinality(same) >= 2 /\ \A i \in same : Returned(i))
                  => Cardinality(FoodsByFdcId(foods, fdc_id)) = 1

\* C2, amended: at most one of them returns duplicate=false, and at most one
\* Food row of the identifier is ever committed; once they have returned the
\* row is committed exactly when one of them returned without error, and a
\* duplicate=true result carries that row's id.
C2_AtMostOneNew ==
    \A fdc_id \in {Num(i) : i \in FdcIds} :
        LET same == RequestsOf(fdc_id)
            rows == FoodsByFdcId(foods, fdc_id)
        IN  /\ Cardinality({i \in same : ReturnedNew(i)}) <= 1
            /\ Cardinality(rows) <= 1
            /\ \A i \in same :
                  (ReturnedNew(i) \/ ReturnedDuplicate(i))
                     => \E f \in rows : f.id = reqs[i].result.food_id
            /\ (\A i \in same : Returned(i))
                  => (rows # {} <=> \E i \in same : ~ReturnedError(i))

\* two requests of one identifier both found no stored Food; one committed
\* and the other's INSERT hit the unique constraint
C2_Witness ==
    \E i, j \in DOMAIN reqs :
        /\ i # j
        /\ ExternalId(reqs[i].food_data) = ExternalId(reqs[j].food_data)
        /\ ReturnedNew(i)
        /\ Returned(j)
        /\ reqs[j].result = IntegrityResult
        /\ reqs[j].food_data.foodNutrients = <<>>

\* C3: a payload with neither a non-empty fdcId nor a non-empty food_id is
\* answered with an error, and nothing that is committed changes.
C3_NoIdentifierNoRows ==
    (IsSave /\ Empty(last.food_data.fdcId) /\ Empty(last.food_data.food_id)) =>
        /\ last.result = NoIdError
        /\ Committed = pre
        /\ last.uncommitted = <<>>

\* a payload without identifier was refused while Foods were stored
C3_Witness ==
    /\ IsSave /\ Empty(last.food_data.fdcId) /\ Empty(last.food_data.food_id)
    /\ last.food_data.fdcId = None
    /\ pre.foods # {}

\* C5: an ingest that finds its identifier stored changes no Food row, no
\* Nutrient row, no association and no portion.
C5_DuplicateChangesNothing ==
    SavedDuplicate => Tables = PreTables

\* a duplicate ingest whose payload differs from the stored Food in its
\* description and in its nutrient and portion lists
C5_Witness ==
    /\ SavedDuplicate
    /\ \E f \in foods :
          /\ f.id = last.result.food_id
          /\ CreateFoodFromApiData(last.food_data, f.id, clock).description # f.description
          /\ Len(last.food_data.foodNutrients)
                # Cardinality({r \in food_nutrients : r.food_id = f.id})
          /\ Len(last.food_data.foodPortions)
                # Cardinality({r \in food_portions : r.food_id = f.id})

\* C4: ingestion is atomic.  When save_food_from_api returns an error, the
\* committed Food, Nutrient, association and portion tables are those before
\* the call.
C4_IngestAtomic ==
    SaveFailed => Tables = PreTables

\* an ingest failed on its second nutrient entry, after the Food, a Nutrient
\* and an association had been added to the session
C4_Witness ==
    /\ SaveFailed
    /\ last.result = FailedResult
    /\ Len(last.food_data.foodNutrients) = 2
    /\ ~EntrySkipped(last.food_data.foodNutrients[1])
    /\ pre.nutrients = {}

\* a nutrient entry names a nutrient / gives a numeric amount / gives no amount
CarriesId(entry) == entry.info_id.t = "num" \/ entry.nutrientId.t = "num"
CarriesNumber(entry) == entry.amount.t = "num" \/ entry.value.t = "num"
LacksAmount(entry) == Empty(entry.amount) /\ Empty(entry.value)
NotNumeric(entry) == entry.amount.t = "str" /\ ~Empty(entry.amount)
ValidEntry(entry) == CarriesId(entry) /\ CarriesNumber(entry) /\ ~NotNumeric(entry)
NamedId(entry) == IF entry.info_id.t = "num" THEN entry.info_id.n ELSE entry.nutrientId.n
GivenAmount(entry) == IF entry.amount.t = "num" THEN entry.amount ELSE entry.value

\* the call ingests a payload whose identifier is not stored
IngestOfNewId ==
    /\ IsSave
    /\ \E fdc_id \in {Num(i) : i \in FdcIds} : Resolves(last.food_data, fdc_id)
    /\ \A f \in pre.foods : ~Resolves(last.food_data, f.fdc_id)

\* the valid entries of the list name pairwise different nutrients
DistinctValid(entries) ==
    \A i, j \in 1..Len(entries) :
        (i # j /\ ValidEntry(entries[i]) /\ ValidEntry(entries[j]))
            => NamedId(entries[i]) # NamedId(entries[j])

\* C6: nutrient upsert.  The Nutrient table never holds two rows of one id,
\* and after a successful ingest it holds a row for every nutrient id that a
\* valid entry of the payload names, with an association of the new Food.
C6_NutrientUpsert ==
    /\ \A n, m \in nutrients : n.id = m.id => n = m
    /\ SavedNew =>
         \A i \in 1..Len(last.food_data.foodNutrients) :
            LET entry == last.food_data.foodNutrients[i]
            IN  ValidEntry(entry) =>
                  /\ \E n \in nutrients : n.id = NamedId(entry)
                  /\ \E r \in food_nutrients :
                        r.food_id = last.result.food_id /\ r.nutrient_id = NamedId(entry)

\* C7: partial tolerance.  An ingest of a new identifier whose nutrient list
\* mixes valid entries (of different nutrients) with entries lacking an id or
\* an amount succeeds, and the new Food has exactly one association per valid
\* entry and no other.
C7_PartialTolerance ==
    LET entries == last.food_data.foodNutrients
        valid == {i \in 1..Len(entries) : ValidEntry(entries[i])}
        lacking == {i \in 1..Len(entries) :
                        ~CarriesId(entries[i]) \/ LacksAmount(entries[i])}
    IN  (/\ IngestOfNewId
         /\ valid \cup lacking = 1..Len(entries)
         /\ valid # {} /\ lacking # {}
         /\ DistinctValid(entries))
        => /\ SavedNew
           /\ LET rows == {r \in food_nutrients : r.food_id = last.result.food_id}
              IN  /\ Cardinality(rows) = Cardinality(valid)
                  /\ \A i \in valid :
                        \E r \in rows : /\ r.nutrient_id = NamedId(entries[i])
                                        /\ r.amount = GivenAmount(entries[i])

\* C8: a nutrient entry whose amount is not numeric is skipped.  An ingest of
\* a new identifier whose other entries are valid, of different nutrients and
\* with amounts other than 0, succeeds, with one association per valid entry.
C8_NonNumericSkipped ==
    LET entries == last.food_data.foodNutrients
        valid == {i \in 1..Len(entries) : ValidEntry(entries[i])}
        bad == {i \in 1..Len(entries) : CarriesId(entries[i]) /\ NotNumeric(entries[i])}
    IN  (/\ IngestOfNewId
         /\ bad # {}
         /\ valid \cup bad = 1..Len(entries)
         /\ \A i \in valid : GivenAmount(entries[i]) # Num(0)
         /\ DistinctValid(entries))
        => /\ SavedNew
           /\ Cardinality({r \in food_nutrients : r.food_id = last.result.food_id})
                 = Cardinality(valid)

\* C9: at most one association row per (food, nutrient) pair is committed.
C9_OneAssociationPerPair ==
    \A r, q \in food_nutrients :
        (r.food_id = q.food_id /\ r.nutrient_id = q.nutrient_id) => r = q

\* an ingest of a new identifier whose payload lists one nutrient in two
\* valid entries has returned
C9_Witness ==
    /\ IngestOfNewId
    /\ \E i, j \in 1..Len(last.food_data.foodNutrients) :
          /\ i # j
          /\ ValidEntry(last.food_data.foodNutrients[i])
          /\ ValidEntry(last.food_data.foodNutrients[j])
          /\ NamedId(last.food_data.foodNutrients[i])
                = NamedId(last.food_data.foodNutrients[j])
    /\ last.result = IntegrityResult
    /\ pre.food_nutrients # {}

\* C10: portion defaults.  A successful ingest creates one portion row per
\* portion entry, in order, with gram weight 100 and amount 1 where the entry
\* has no such key; and no committed portion row lacks either.
C10_PortionDefaults ==
    /\ \A r \in food_portions : r.amount # None /\ r.gram_weight # None
    /\ SavedNew =>
         LET entries == last.food_data.foodPortions
             rows == {r \in food_portions : r.food_id = last.result.food_id}
             base == SetMax({r.id : r \in pre.food_portions})
         IN  /\ Cardinality(rows) = Len(entries)
             /\ \A i \in 1..Len(entries) :
                   \E r \in rows :
                      /\ r.id = base + i
                      /\ r.gram_weight = IF entries[i].gramWeight = Absent
                                         THEN Num(100) ELSE entries[i].gramWeight
                      /\ r.amount = IF entries[i].amount = Absent
                                    THEN Num(1) ELSE entries[i].amount

\* a payload with two portion entries, one without gram weight and amount,
\* was ingested
C10_Witness ==
    /\ SavedNew
    /\ Len(last.food_data.foodPortions) = 2
    /\ \E i \in 1..2 : last.food_data.foodPortions[i].gramWeight = Absent
    /\ \E i \in 1..2 : last.food_data.foodPortions[i].gramWeight # Absent

\* the publication date of a payload is one that datetime.fromisoformat reads
Parsable(v) == \E d \in IsoDates : v = Str(d[1])

\* C11: missing optional fields never fail an ingestion.  An ingest of a new
\* identifier whose payload has no portion entry and names no nutrient twice
\* succeeds as new whatever its other keys hold (missing, empty, null or
\* unparsable), the Food is created, and a publication date that cannot be
\* read is stored as None.
C11_OptionalFieldsTolerated ==
    (/\ IngestOfNewId
     /\ DistinctValid(last.food_data.foodNutrients)
     /\ last.food_data.foodPortions = <<>>)
    => /\ SavedNew
       /\ \E f \in foods :
             /\ f.id = last.result.food_id
             /\ ~Parsable(last.food_data.publishedDate) => f.published_date = None

IsUpdate == last.op = "update"
IsDelete == last.op = "delete"
Succeeded == last.result.error = ""

\* the Food the last update or delete addressed, as it was before the call
Addressed == {f \in pre.foods : f.id = last.food_id}

\* C12: effect of delete.  After delete_food(id) succeeds no Food row has
\* that id, no association and no portion row references it,
\* get_food_by_id(id) returns None, and the Nutrient rows and every other
\* Food with its associations and portions are as before the call.
C12_DeleteEffect ==
    (IsDelete /\ Succeeded) =>
        /\ \A f \in foods : f.id # last.food_id
        /\ \A r \in food_nutrients : r.food_id # last.food_id
        /\ \A r \in food_portions : r.food_id # last.food_id
        /\ GetFoodById(foods, last.food_id) = None
        /\ nutrients = pre.nutrients
        /\ foods = {f \in pre.foods : f.id # last.food_id}
        /\ food_nutrients = {r \in pre.food_nutrients : r.food_id # last.food_id}
        /\ food_portions = {r \in pre.food_portions : r.food_id # last.food_id}

\* a Food with an association and a portion was deleted while another Food
\* was stored
C12_Witness ==
    /\ IsDelete /\ Succeeded
    /\ \E r \in pre.food_nutrients : r.food_id = last.food_id
    /\ \E r \in pre.food_portions : r.food_id = last.food_id
    /\ foods # {}
    /\ nutrients # {}

\* C13: the allow-list of update.  Whatever update_food is given, every
\* Food keeps its external identifier, data type, publication date, saved-at
\* and raw payload, and the Nutrient, association and portion rows are those
\* before the call; an input with a key outside the allow-list succeeds only
\* if it has an allowed key as well.
C13_UpdateAllowList ==
    IsUpdate =>
        /\ \A f \in pre.foods :
              \E g \in foods :
                 /\ g.id = f.id
                 /\ g.fdc_id = f.fdc_id
                 /\ g.data_type = f.data_type
                 /\ g.published_date = f.published_date
                 /\ g.saved_at = f.saved_at
                 /\ g.raw_data = f.raw_data
        /\ Cardinality(foods) = Cardinality(pre.foods)
        /\ nutrients = pre.nutrients
        /\ food_nutrients = pre.food_nutrients
        /\ food_portions = pre.food_portions
        /\ (Succeeded /\ last.update_data.fdc_id # Absent) =>
              (last.update_data.description # Absent
                 \/ last.update_data.brand_owner # Absent)

\* an update that carries the external identifier next to an allowed field
\* succeeded on a Food that has associations
C13_Witness ==
    /\ IsUpdate /\ Succeeded
    /\ last.update_data.fdc_id # Absent
    /\ \E r \in food_nutrients : r.food_id = last.food_id

\* the input of the last update has no key of the allow-list
NoAllowedField ==
    last.update_data.description = Absent /\ last.update_data.brand_owner = Absent

\* C14: rejected calls leave no trace.  An update of a Food that does not
\* exist or with no allowed field, and a delete of a Food that does not
\* exist, return an error, and everything committed (the Food's updated-at
\* and the history log included) is as before the call.
C14_RejectedNoTrace ==
    /\ (IsUpdate /\ (Addressed = {} \/ NoAllowedField)) =>
          ~Succeeded /\ Committed = pre
    /\ (IsDelete /\ Addressed = {}) =>
          ~Succeeded /\ Committed = pre

\* an update of a stored Food whose only key is outside the allow-list was
\* rejected
C14_Witness ==
    /\ IsUpdate
    /\ Addressed # {}
    /\ NoAllowedField
    /\ last.update_data.fdc_id # Absent
    /\ last.result = NoFieldsError

\* C15: not-found is reported distinctly.  A delete request is answered with
\* the missing-resource status 404 exactly when delete_food found no Food of
\* the addressed id; a failure while deleting a Food that exists is answered
\* with another status.
C15_NotFoundDistinct ==
    \A i \in DOMAIN reqs :
        (reqs[i].pc = "done" /\ "found" \in DOMAIN reqs[i]) =>
            (reqs[i].status = 404 <=> ~reqs[i].found)

\* C16: a successful update.  update_food(id, fields) on a stored Food sets
\* the allowed fields the input has to the given values and leaves the other
\* one, reports exactly those fields as updated_fields, stamps updated-at
\* with the time of the call, and commits one new 'update' history row that
\* references the Food.
C16_UpdateEffect ==
    (IsUpdate /\ Succeeded) =>
        /\ \E f \in Addressed, g \in foods :
              /\ g.id = f.id
              /\ g.description = IF last.update_data.description # Absent
                                 THEN last.update_data.description ELSE f.description
              /\ g.brand_owner = IF last.update_data.brand_owner # Absent
                                 THEN last.update_data.brand_owner ELSE f.brand_owner
              /\ g.updated_at = clock
              /\ g.updated_at > f.updated_at
        /\ last.result.updated_fields =
              {k \in {"description", "brand_owner"} : last.update_data[k] # Absent}
        /\ search_history =
              Append(pre.search_history,
                     [action |-> "update", search_query |-> None,
                      food_id |-> Num(last.food_id), ip_address |-> None])

\* an update of the brand alone succeeded on a Food that has a description
C16_Witness ==
    /\ IsUpdate /\ Succeeded
    /\ last.update_data.description = Absent
    /\ last.update_data.brand_owner # Absent
    /\ \E f \in foods : f.id = last.food_id /\ f.description = Str("Apple")

\* the history row of a successful ingest
IngestRow ==
    [action |-> IF last.result.duplicate THEN "duplicate_save" ELSE "save",
     search_query |-> None,
     food_id |-> Num(last.result.food_id),
     ip_address |-> RemoteAddr]

\* C17: every ingest that resolves an identifier leaves exactly one history
\* row in the committed log: a 'save' row that references the new Food, or a
\* 'duplicate_save' row that references the stored Food.
C17_IngestLogged ==
    SaveSucceeded => search_history = Append(pre.search_history, IngestRow)

\* C18: a search with a non-empty query leaves exactly one 'search' row with
\* that query in the committed log, whatever it matched; a search with an
\* empty query adds no row and returns what get_all_foods(limit) returns.
C18_SearchLogged ==
    last.op = "search" =>
        IF last.query = Str("")
        THEN /\ search_history = pre.search_history
             /\ last.result = GetAllFoods(foods, last.limit, 0)
        ELSE search_history =
                Append(pre.search_history,
                       [action |-> "search", search_query |-> last.query,
                        food_id |-> None, ip_address |-> None])

\* C19: the history row of a delete.  After delete_food succeeds the log is
\* the log before the call followed by one 'delete' row whose food reference
\* is the deleted id, which no Food has any more; the rows that referenced
\* the Food before are still there.
C19_DeleteLogged ==
    (IsDelete /\ Succeeded) =>
        /\ search_history =
              Append(pre.search_history,
                     [action |-> "delete", search_query |-> None,
                      food_id |-> Num(last.food_id), ip_address |-> None])
        /\ \A f \in foods : f.id # last.food_id
        /\ \A i \in 1..Len(pre.search_history) :
              pre.search_history[i].food_id = Num(last.food_id)
                 => search_history[i] = pre.search_history[i]

\* a Food whose update is in the log was deleted
C19_Witness ==
    /\ IsDelete /\ Succeeded
    /\ \E i \in 1..Len(pre.search_history) :
          /\ pre.search_history[i].food_id = Num(last.food_id)
          /\ pre.search_history[i].action = "update"

\* C20: the history log is append-only.  Every call leaves the committed
\* rows of the log where they were, with their action, query, food reference
\* and origin, so the log never gets shorter.
C20_HistoryAppendOnly ==
    /\ Len(search_history) >= Len(pre.search_history)
    /\ \A i \in 1..Len(pre.search_history) : search_history[i] = pre.search_history[i]

\* a Food was deleted, or a search ran, after a row that references a stored
\* Food was committed to the log
C20_Witness ==
    /\ pre.search_history # <<>>
    /\ \/ last.op = "search" /\ last.query # Str("")
       \/ IsDelete /\ Succeeded /\ Len(search_history) = Len(pre.search_history) + 1
       \/ SaveSucceeded

\* C21: history logging is best-effort.  Whatever goes wrong with the history
\* row, an update of a stored Food with an allowed field and values the
\* columns accept succeeds and its changes are committed, and a delete of a
\* stored Food succeeds and the Food is removed.
C21_LoggingBestEffort ==
    /\ (/\ IsUpdate
        /\ Addressed # {}
        /\ ~NoAllowedField
        /\ last.update_data.description # None)
       => /\ Succeeded
          /\ \E g \in foods :
                /\ g.id = last.food_id
                /\ last.update_data.description # Absent
                      => g.description = last.update_data.description
                /\ last.update_data.brand_owner # Absent
                      => g.brand_owner = last.update_data.brand_owner
    /\ (IsDelete /\ Addressed # {})
       => /\ Succeeded
          /\ \A f \in foods : f.id # last.food_id

\* a Food of the external identifier i has been created: it is stored, or the
\* last call deleted it
CreatedBefore(i) ==
    \/ \E f \in foods : f.fdc_id = Num(i)
    \/ /\ IsDelete /\ Succeeded
       /\ \E f \in pre.foods : f.id = last.food_id /\ f.fdc_id = Num(i)

\* C22 as stated: a Food is created at most once per external identifier.
\* Once a Food of an identifier has been created, an ingest of that
\* identifier that succeeds takes the duplicate path, also when it follows
\* the delete of that Food.
C22_CreatedOnce ==
    [][\A i \in FdcIds :
          (/\ CreatedBefore(i)
           /\ last'.op = "save"
           /\ clock' = clock + 1
           /\ Resolves(last'.food_data, Num(i))
           /\ last'.result.error = "")
          => last'.result.duplicate]_vars

\* C22, amended: an ingest creates a Food exactly when it succeeds and no Food
\* of the identifier is stored at the time of the call; while a Food of the
\* identifier is stored every ingest of it takes the duplicate path, and the
\* Foods of other identifiers and the number of Foods are unchanged by it.
C22_CreatedWhenNotStored ==
    IsSave =>
        LET stored == {f \in pre.foods : Resolves(last.food_data, f.fdc_id)}
            created == foods \ pre.foods
        IN  /\ stored # {} => (SavedDuplicate /\ created = {})
            /\ Cardinality(created) <= 1
            /\ created # {} <=> SavedNew
            /\ \A f \in created :
                  /\ Resolves(last.food_data, f.fdc_id)
                  /\ f.saved_at = clock
                  /\ stored = {}
            /\ pre.foods \subseteq foods

\* an ingest created a Food of an identifier whose earlier Food was deleted
C22_Witness ==
    /\ SavedNew
    /\ pre.foods = {}
    /\ \E i \in 1..Len(search_history) : search_history[i].action = "delete"

\* text contains part as a substring
Contains(text, part) ==
    \E i \in 1..(Len(text) - Len(part) + 1) : SubSeq(text, i, i + Len(part) - 1) = part

\* a column value contains the query, the case of the ASCII letters aside
ContainsFolded(v, query) == v.t = "str" /\ Contains(Lower(v.s), Lower(query.s))

\* C23: a search with a non-empty query returns only Foods whose description
\* or brand owner contains the query, compared case-insensitively; at most
\* limit of them and no Food twice; and all of them when they are at most limit.
\* A Food without brand owner is matched on its description alone.
C23_SearchMatches ==
    (last.op = "search" /\ last.query # Str("")) =>
        LET matching == {f.id : f \in {f \in foods :
                            \/ ContainsFolded(f.description, last.query)
                            \/ ContainsFolded(f.brand_owner, last.query)}}
            found == {last.result[i] : i \in 1..Len(last.result)}
        IN  /\ found \subseteq matching
            /\ Len(last.result) <= last.limit
            /\ Cardinality(found) = Len(last.result)
            /\ Cardinality(matching) <= last.limit => found = matching

\* the Foods saved later than f
SavedAfter(f) == {g \in foods : g.saved_at > f.saved_at}

\* the number of Foods left after the first offset of them
LeftAfter(offset) ==
    IF Cardinality(foods) > offset THEN Cardinality(foods) - offset ELSE 0

\* C24: a listing with limit and offset returns the Foods most recently saved
\* first, without the first offset of them, and at most limit of them: the
\* i-th Food returned is the one with offset + i - 1 Foods saved after it, and
\* as many are returned as are left after the offset, up to limit.  This holds
\* for every limit >= 0, limit = 0 included.
C24_ListPage ==
    last.op = "list" =>
        /\ Len(last.result) =
              (IF last.limit < LeftAfter(last.offset) THEN last.limit
               ELSE LeftAfter(last.offset))
        /\ \A i \in 1..Len(last.result) :
              \E f \in foods : /\ f.id = last.result[i]
                               /\ Cardinality(SavedAfter(f)) = last.offset + i - 1

\* the representations the last operation returned
Representations == IF "returned" \in DOMAIN last THEN last.returned ELSE <<>>

C26_ZeroAmountKept ==
    LET entries == last.food_data.foodNutrients
    IN  (SavedNew /\ DistinctValid(entries)) =>
            \A i \in 1..Len(entries) :
                (CarriesId(entries[i]) /\ GivenAmount(entries[i]) = Num(0)) =>
                    \E r \in food_nutrients :
                        /\ r.food_id = last.result.food_id
                        /\ r.nutrient_id = NamedId(entries[i])
                        /\ r.amount = Num(0)

\* C27: referential integrity of every committed state.  Every association
\* references a stored Food and a stored Nutrient, and every portion
\* references a stored Food.
C27_ReferentialIntegrity ==
    /\ \A r \in food_nutrients :
          /\ \E f \in foods : f.id = r.food_id
          /\ \E n \in nutrients : n.id = r.nutrient_id
    /\ \A p \in food_portions : \E f \in foods : f.id = p.food_id

\* a Food with an association and a portion has been deleted while another
\* Food keeps its association
C27_Witness ==
    /\ IsDelete /\ Succeeded
    /\ \E r \in pre.food_nutrients : r.food_id = last.food_id
    /\ \E p \in pre.food_portions : p.food_id = last.food_id
    /\ food_nutrients # {}

\* the ingest requests, which carry a payload
IngestRequests == {i \in DOMAIN reqs : "food_data" \in DOMAIN reqs[i]}

\* C28: two concurrent ingests of different identifiers.  Once both have
\* returned, both have succeeded as new, two Foods are stored, and for every
\* nutrient id a payload names there is one Nutrient row and one association
\* of each Food whose payload names it; the payloads may name the same
\* nutrient, each at most once.
C28_BothSucceed ==
    \A i, j \in IngestRequests :
        (/\ i # j
         /\ Returned(i) /\ Returned(j)
         /\ ~MissingId(reqs[i].food_data) /\ ~MissingId(reqs[j].food_data)
         /\ ExternalId(reqs[i].food_data) # ExternalId(reqs[j].food_data)
         /\ DistinctValid(reqs[i].food_data.foodNutrients)
         /\ DistinctValid(reqs[j].food_data.foodNutrients))
        => /\ ReturnedNew(i) /\ ReturnedNew(j)
           /\ Cardinality(foods) = 2
           /\ \A k \in {i, j} :
                 \A e \in 1..Len(reqs[k].food_data.foodNutrients) :
                    LET id == NamedId(reqs[k].food_data.foodNutrients[e])
                    IN  /\ Cardinality({n \in nutrients : n.id = id}) = 1
                        /\ Cardinality({r \in food_nutrients :
                                           /\ r.food_id = reqs[k].result.food_id
                                           /\ r.nutrient_id = id}) = 1

\* C29: a Nutrient row is written once.  Every Nutrient row committed before
\* a call of ingest, update or delete is committed unchanged after it, and no
\* nutrient id has two rows; this holds also when the payload of the call
\* gives the nutrient another name or unit than the stored row.
C29_NutrientWrittenOnce ==
    /\ \A n \in pre.nutrients : n \in nutrients
    /\ \A n, m \in nutrients : n.id = m.id => n = m

\* the payload of a successful ingest gives a stored nutrient another name
\* (it gives a name and the row has the placeholder, or the other way round)
C29_Witness ==
    /\ SavedNew
    /\ \E n \in pre.nutrients :
          \E i \in 1..Len(last.food_data.foodNutrients) :
             LET entry == last.food_data.foodNutrients[i]
             IN  /\ ValidEntry(entry)
                 /\ NamedId(entry) = n.id
                 /\ NewNutrient(n.id, entry).name # n.name
                 /\ \E r \in food_nutrients :
                       r.food_id = last.result.food_id /\ r.nutrient_id = n.id

\* C30: the rate limiter bounds the rate of the requests it lets through.
\* No interval of length time_window contains more than max_calls of the
\* moments at which wait_if_needed returned: any max_calls + 1 of them in a
\* row span at least time_window.
C30_RateBounded ==
    \A i \in 1..Len(limiter.released) :
        (i + limiter.max_calls <= Len(limiter.released)) =>
            limiter.released[i + limiter.max_calls] - limiter.released[i]
                >= limiter.time_window

=============================================================================
